---- MODULE Spec2Model ----
(***************************************************************************)
(* Merchant-verification pipeline of the onboarding backend:               *)
(*   services/externalVerification.ts  (verifyMerchant, Redis cache)       *)
(*   workers/externalVerificationWorker.ts (BullMQ job processor)          *)
(*   routes/webhook.ts, routes/merchant.ts (the HTTP entry points)         *)
(*   pages/Onboarding (handleFinalSubmit, handleDataChange) and            *)
(*   components/onboarding/MerchantRegistration.tsx (document uploads)     *)
(* Time is counted in seconds; redis.get / redis.set are the atomic steps  *)
(* of a verifyMerchant call, every await is a point of interleaving.       *)
(***************************************************************************)
EXTENDS Integers, Sequences, FiniteSets, TLC

\* ---------------------------------------------------------------- bounds
MaxTime == 3700
TickStep == 3600
ShortStep == 1800
MaxCalls == 3
MaxDeliveries == 2
MaxRequests == 3
MaxSubmits == 2
MaxUploads == 3

\* ------------------------------------------------------ program constants
\* redis.set(key, value, 'EX', 3600)
TTL == 3600

Merchants == {"M-001", "M-002"}
Clients == {"c1"}
Workers == {"w1", "w2"}
Jobs == {"j1", "j2"}
Handlers == {"h1", "h2"}
Procs == (Clients \cup Workers) \cup Handlers

\* the routes mounted by the app: /merchant/submit, /webhook/external-verification
Routes == {"submit", "webhook"}

\* req.body as parsed by json(): an object carrying merchantId; ownToString says
\* the object has an own property "toString" that is not a function
Bodies == [merchantId : Merchants, ownToString : BOOLEAN]

Nil == "nil"
NoEntry == [val |-> Nil, exp |-> 0, at |-> 0]
NoMessage == "undefined"
NoResult == [success |-> FALSE, message |-> "pending"]
NoNotif == [merchantId |-> Nil, message |-> Nil, result |-> NoResult, delivered |-> FALSE]
NoCall == [merchantId |-> Nil, path |-> "none", success |-> FALSE, exp |-> 0]
NoBody == [merchantId |-> Nil, ownToString |-> FALSE]
NoJson == [success |-> FALSE, data |-> NoResult, message |-> NoMessage]
NoResponse == [status |-> 0, text |-> Nil, json |-> NoJson]
NothingSet == [submitted |-> FALSE, popup |-> FALSE]

\* onboardingData as handleFinalSubmit reads it: the four required documents are
\* there with their paths; the required fields, bank details and KYC flags are
\* filled in; a user is signed in
SubmitInputs == [documents : BOOLEAN, fields : BOOLEAN, user : BOOLEAN]
AllSteps == <<"profile", "bank", "docs", "kyc", "status">>
\* the document keys MerchantRegistration uploads
DocKeys == {"panCard", "aadhaarCard", "businessProof", "bankStatement"}
NoPath == 0
NoUpload == [path |-> NoPath]

VARIABLES
    cache,      \* Redis: key -> [val, exp, at]: value, expiry time, time of the write
    now,        \* clock, seconds
    vpc,        \* position of each caller inside verifyMerchant
    varg,       \* merchantId argument of the call
    vver,       \* local isVerified
    vres,       \* value the call returned
    vpath,      \* which return statement the call left by: hit / miss / error
    vcomputed,  \* the call evaluated the verification computation
    vat,        \* time of the redis.get of a client's call
    ncalls,     \* direct calls made by each client
    prev,       \* the client's previous completed call
    before,     \* the cache as it was when the client's current call began
    jstate,     \* queue state of each job
    jdata,      \* job.data.merchantId
    deliveries, \* how many times the job was handed to a worker
    jfail,      \* what threw in the job's current delivery
    wpc,        \* position of each worker inside the job processor
    wjob,       \* the job the worker holds
    nsent,      \* per job, the calls of sendNotification made over all its deliveries
    lastNotif,  \* per job, the call of sendNotification made in its current delivery
    hpc,        \* position of each request handler
    hroute,     \* the route the handler serves
    hbody,      \* req.body of the request
    hresp,      \* the response the handler sent
    nreq,       \* requests received so far
    jwrote,     \* per job, the cache entry its processing last wrote (history)
    jread,      \* per job, the cache entry its processing was last served from (history)
    fpc,        \* position inside handleFinalSubmit
    fdone,      \* the writes of the current submission that succeeded, in order
    fset,       \* what the current submission set: status 'submitted', the popup
    onboardingStatus,  \* merchant_profiles.onboarding_status of the user's profile
    showSuccessPopup,  \* useState(false)
    isSubmitting,      \* useState(false)
    nsubmit,    \* submissions started so far
    rows,       \* the tables that hold a row of this merchant
    documents,  \* onboardingData.documents: the path held for each document key
    pending,    \* the uploads in flight, each with the data it captured
    nupload,    \* uploads started so far; the number names the uploaded path
    latest      \* history: per document key, the path of the last upload that succeeded

cacheVars == <<cache, now>>
callVars == <<vpc, varg, vver, vres, vpath, vcomputed, vat>>
clientVars == <<ncalls, prev, before>>
queueVars == <<jstate, jdata, deliveries, jfail>>
workerVars == <<wpc, wjob, nsent, lastNotif>>
httpVars == <<hpc, hroute, hbody, hresp, nreq>>
histVars == <<jwrote, jread>>
submitVars == <<fpc, fdone, fset, onboardingStatus, showSuccessPopup, isSubmitting, nsubmit, rows>>
formVars == <<documents, pending, nupload, latest>>
wizVars == <<submitVars, formVars>>
vars == <<cache, now, vpc, varg, vver, vres, vpath, vcomputed, vat, ncalls, prev, before,
          jstate, jdata, deliveries, jfail, wpc, wjob, nsent, lastNotif,
          hpc, hroute, hbody, hresp, nreq, jwrote, jread,
          fpc, fdone, fset, onboardingStatus, showSuccessPopup, isSubmitting, nsubmit,
          rows, documents, pending, nupload, latest>>

\* ------------------------------------------------------------- the cache
\* `merchant_verification:${merchantId}`
Key(merchantId) == "merchant_verification:" \o merchantId

\* `${x}` for a request body x: "[object Object]" for a plain object; the
\* conversion throws a TypeError when the object's own toString is not callable
TemplateThrows(body) == body.ownToString
TemplateOf(body) == "[object Object]"

Keys == {Key(m) : m \in Merchants} \cup {Key(TemplateOf(b)) : b \in Bodies}

\* (mutant) the entry is still served in the second it expires
LiveInclusive(k) == cache[k] # NoEntry /\ now <= cache[k].exp

\* An entry written with EX ttl is gone once ttl seconds have passed.
Live(k) == cache[k] # NoEntry /\ now < cache[k].exp

\* redis.get(key): the stored string, or null
RedisGet(k) == IF Live(k) THEN cache[k].val ELSE Nil

\* redis.set(key, value, 'EX', ttl)
RedisSet(k, value, ttl) ==
    [cache EXCEPT ![k] = [val |-> value, exp |-> now + ttl, at |-> now]]

\* (mutant) if (cachedResult === 'true'): a cached "false" is not taken as a hit
TruthyOnlyTrue(s) == s = "true"

\* (mutant) the cached result is never taken: every call recomputes
TruthyNever(s) == FALSE

\* JavaScript truthiness of a string | null
Truthy(s) == s # Nil /\ s # ""

\* (mutant) the outcome is cached as "1" / "0"
StringNumeric(b) == IF b THEN "1" ELSE "0"

\* String(isVerified)
String(b) == IF b THEN "true" ELSE "false"

\* ------------------------------------------------------- verifyMerchant
\* entry of verifyMerchant(merchantId): everything up to the await on redis.get
VerifyStart(p, merchantId) ==
    /\ vpc' = [vpc EXCEPT ![p] = "get"]
    /\ varg' = [varg EXCEPT ![p] = merchantId]
    /\ vver' = [vver EXCEPT ![p] = FALSE]
    /\ vres' = [vres EXCEPT ![p] = NoResult]
    /\ vpath' = [vpath EXCEPT ![p] = "none"]
    /\ vcomputed' = [vcomputed EXCEPT ![p] = FALSE]
    /\ vat' = IF p \in Clients THEN [vat EXCEPT ![p] = 0] ELSE vat

\* (mutant) a cache hit is reported as a success whatever was cached
HitResultAlwaysTrue(cachedResult) == [success |-> TRUE, message |-> NoMessage]

\* (mutant) a cache hit reports the opposite of what was cached
HitResultNegated(cachedResult) == [success |-> (cachedResult # "true"), message |-> NoMessage]

\* return { success: cachedResult === 'true' }
HitResult(cachedResult) == [success |-> (cachedResult = "true"), message |-> NoMessage]

\* (mutant) only a positive outcome is given a message
MissResultNoMessage(isVerified) ==
    [success |-> isVerified,
     message |-> IF isVerified THEN "Verified successfully" ELSE NoMessage]

\* (mutant) the miss branch returns the opposite of what it computed and cached
MissResultNegated(isVerified) ==
    [success |-> ~isVerified,
     message |-> IF isVerified THEN "Verified successfully" ELSE "Verification failed"]

\* return { success: isVerified, message: isVerified ? ... : ... }
MissResult(isVerified) ==
    [success |-> isVerified,
     message |-> IF isVerified THEN "Verified successfully" ELSE "Verification failed"]

\* catch (error) { ...; return { success: false, message: 'Internal error ...' } }
ErrorResult == [success |-> FALSE, message |-> "Internal error during verification"]

\* (mutant) the catch block records the failure in the cache as a negative verdict
VerifyCatchCachesFalse(p) ==
    /\ vpc' = [vpc EXCEPT ![p] = "done"]
    /\ vres' = [vres EXCEPT ![p] = ErrorResult]
    /\ vpath' = [vpath EXCEPT ![p] = "error"]
    /\ cache' = [cache EXCEPT ![Key(varg[p])] = [val |-> "false", exp |-> now + TTL, at |-> now]]

\* (mutant) the catch block puts the failed operation into the message
VerifyCatchLeaks(p) ==
    /\ vpc' = [vpc EXCEPT ![p] = "done"]
    /\ vres' = [vres EXCEPT ![p] =
                  [success |-> FALSE, message |-> "redis." \o vpc[p] \o " failed"]]
    /\ vpath' = [vpath EXCEPT ![p] = "error"]
    /\ cache' = cache

\* the catch block of verifyMerchant
VerifyCatch(p) ==
    /\ vpc' = [vpc EXCEPT ![p] = "done"]
    /\ vres' = [vres EXCEPT ![p] = ErrorResult]
    /\ vpath' = [vpath EXCEPT ![p] = "error"]
    /\ cache' = cache

\* const cachedResult = await redis.get(...); if (cachedResult) return ...
\* ok = FALSE: the read rejects (Redis unreachable)
CacheGetCore(p, ok) ==
    /\ vpc[p] = "get"
    /\ vat' = IF p \in Clients THEN [vat EXCEPT ![p] = now] ELSE vat
    /\ IF ~ok
         THEN VerifyCatch(p)
         ELSE LET cachedResult == RedisGet(Key(varg[p])) IN
              /\ cache' = cache
              /\ IF Truthy(cachedResult)
                   THEN /\ vpc' = [vpc EXCEPT ![p] = "done"]
                        /\ vres' = [vres EXCEPT ![p] = HitResult(cachedResult)]
                        /\ vpath' = [vpath EXCEPT ![p] = "hit"]
                   ELSE /\ vpc' = [vpc EXCEPT ![p] = "compute"]
                        /\ UNCHANGED <<vres, vpath>>
    /\ UNCHANGED <<now, varg, vver, vcomputed, clientVars, httpVars, wizVars, queueVars, workerVars>>

\* (mutant) redis.getex(key, 'EX', 3600): a read that finds the entry restarts
\* its expiry
CacheGetRefresh(p, ok) ==
    /\ vpc[p] = "get"
    /\ vat' = IF p \in Clients THEN [vat EXCEPT ![p] = now] ELSE vat
    /\ IF ~ok
         THEN VerifyCatch(p)
         ELSE LET cachedResult == RedisGet(Key(varg[p])) IN
              IF Truthy(cachedResult)
                THEN /\ cache' = [cache EXCEPT ![Key(varg[p])].exp = now + TTL]
                     /\ vpc' = [vpc EXCEPT ![p] = "done"]
                     /\ vres' = [vres EXCEPT ![p] = HitResult(cachedResult)]
                     /\ vpath' = [vpath EXCEPT ![p] = "hit"]
                ELSE /\ cache' = cache
                     /\ vpc' = [vpc EXCEPT ![p] = "compute"]
                     /\ UNCHANGED <<vres, vpath>>
    /\ UNCHANGED <<now, varg, vver, vcomputed, clientVars, httpVars, histVars, wizVars, queueVars, workerVars>>

\* the cache read of a verifyMerchant call
CacheGet(p, ok) == CacheGetCore(p, ok) /\ UNCHANGED histVars

\* the cache read of a worker's call, the entry it is served from noted against
\* its job
CacheGetTracked(w, ok) ==
    /\ CacheGetCore(w, ok)
    /\ jread' = IF ok /\ Truthy(RedisGet(Key(varg[w])))
                  THEN [jread EXCEPT ![wjob[w]] = cache[Key(varg[w])]]
                  ELSE jread
    /\ UNCHANGED jwrote

\* const isVerified = Math.random() > 0.3
Compute(p, isVerified) ==
    /\ vpc[p] = "compute"
    /\ vver' = [vver EXCEPT ![p] = isVerified]
    /\ vcomputed' = [vcomputed EXCEPT ![p] = TRUE]
    /\ vpc' = [vpc EXCEPT ![p] = "set"]
    /\ UNCHANGED <<cache, now, varg, vres, vpath, vat, clientVars, httpVars, histVars, wizVars, queueVars, workerVars>>

\* (mutant) only a positive outcome is written to the cache
CacheSetOnlyVerified(p, ok) ==
    /\ vpc[p] = "set"
    /\ IF ~ok
         THEN VerifyCatch(p)
         ELSE /\ cache' = IF vver[p] THEN RedisSet(Key(varg[p]), String(vver[p]), TTL) ELSE cache
              /\ vpc' = [vpc EXCEPT ![p] = "done"]
              /\ vres' = [vres EXCEPT ![p] = MissResult(vver[p])]
              /\ vpath' = [vpath EXCEPT ![p] = "miss"]
    /\ UNCHANGED <<now, varg, vver, vcomputed, vat, clientVars, httpVars, histVars, wizVars, queueVars, workerVars>>

\* (mutant) redis.set(..., 'NX'): an entry that is already there is kept
CacheSetIfAbsent(p, ok) ==
    /\ vpc[p] = "set"
    /\ IF ~ok
         THEN VerifyCatch(p)
         ELSE /\ cache' = IF Live(Key(varg[p])) THEN cache
                          ELSE RedisSet(Key(varg[p]), String(vver[p]), TTL)
              /\ vpc' = [vpc EXCEPT ![p] = "done"]
              /\ vres' = [vres EXCEPT ![p] = MissResult(vver[p])]
              /\ vpath' = [vpath EXCEPT ![p] = "miss"]
    /\ UNCHANGED <<now, varg, vver, vcomputed, vat, clientVars, httpVars, queueVars, workerVars,
                   wizVars>>

\* await redis.set(key, String(isVerified), 'EX', 3600); return {...}
\* ok = FALSE: the write rejects and stores nothing
CacheSetCore(p, ok) ==
    /\ vpc[p] = "set"
    /\ IF ~ok
         THEN VerifyCatch(p)
         ELSE /\ cache' = RedisSet(Key(varg[p]), String(vver[p]), TTL)
              /\ vpc' = [vpc EXCEPT ![p] = "done"]
              /\ vres' = [vres EXCEPT ![p] = MissResult(vver[p])]
              /\ vpath' = [vpath EXCEPT ![p] = "miss"]
    /\ UNCHANGED <<now, varg, vver, vcomputed, vat, clientVars, httpVars, queueVars, workerVars,
                   wizVars>>

\* the cache write of a verifyMerchant call
CacheSet(p, ok) == CacheSetCore(p, ok) /\ UNCHANGED histVars

\* the cache write of a worker's call, the entry written noted against its job
CacheSetTracked(w, ok) ==
    /\ CacheSetCore(w, ok)
    /\ jwrote' = IF ok THEN [jwrote EXCEPT ![wjob[w]] = cache'[Key(varg[w])]] ELSE jwrote
    /\ UNCHANGED jread

\* ------------------------------------------------------------ the clock
Tick ==
    /\ now + TickStep <= MaxTime
    /\ now' = now + TickStep
    /\ UNCHANGED <<cache, callVars, clientVars, httpVars, histVars, wizVars, queueVars, workerVars>>

\* the clock moves on by part of a TTL
TickShort ==
    /\ now + ShortStep <= MaxTime
    /\ now' = now + ShortStep
    /\ UNCHANGED <<cache, callVars, clientVars, httpVars, histVars, wizVars, queueVars, workerVars>>

\* ------------------------------------------------- a direct caller
\* verifyMerchant(merchantId) called by a client that awaits the result
Call(c, merchantId) ==
    /\ vpc[c] = "none"
    /\ ncalls[c] < MaxCalls
    /\ VerifyStart(c, merchantId)
    /\ ncalls' = [ncalls EXCEPT ![c] = @ + 1]
    /\ before' = [before EXCEPT ![c] = cache]
    /\ UNCHANGED <<cache, now, prev, queueVars, workerVars, httpVars, histVars, wizVars>>

\* the entry whose TTL window a finished call stands in: the one it wrote or read
WindowOf(c) ==
    IF vpath[c] = "miss" THEN cache[Key(varg[c])].exp
    ELSE IF vpath[c] = "hit" THEN before[c][Key(varg[c])].exp
    ELSE 0

\* the awaited promise resolves; the client keeps the result
Return(c) ==
    /\ vpc[c] = "done"
    /\ prev' = [prev EXCEPT ![c] = [merchantId |-> varg[c], path |-> vpath[c],
                                    success |-> vres[c].success, exp |-> WindowOf(c)]]
    /\ vpc' = [vpc EXCEPT ![c] = "none"]
    /\ UNCHANGED <<cache, now, varg, vver, vres, vpath, vcomputed, vat, ncalls, before,
                   queueVars, workerVars, httpVars, histVars, wizVars>>

\* ------------------------------------------------------- the job queue
\* a producer adds a VerificationJob { merchantId } to the queue
Enqueue(j, merchantId) ==
    /\ jstate[j] = "None"
    /\ jstate' = [jstate EXCEPT ![j] = "Queued"]
    /\ jdata' = [jdata EXCEPT ![j] = merchantId]
    /\ UNCHANGED <<cacheVars, callVars, clientVars, httpVars, histVars, wizVars, deliveries, jfail, workerVars>>

\* a failed job with retry budget left is scheduled for a retry
Retry(j) ==
    /\ jstate[j] = "Failed"
    /\ deliveries[j] < MaxDeliveries
    /\ jstate' = [jstate EXCEPT ![j] = "Retry"]
    /\ UNCHANGED <<cacheVars, callVars, clientVars, httpVars, histVars, wizVars, jdata, deliveries, jfail, workerVars>>

\* the retry falls due: the job waits for a worker again
Requeue(j) ==
    /\ jstate[j] = "Retry"
    /\ jstate' = [jstate EXCEPT ![j] = "Queued"]
    /\ UNCHANGED <<cacheVars, callVars, clientVars, httpVars, histVars, wizVars, jdata, deliveries, jfail, workerVars>>

\* a failed job whose retry budget is used up
DeadLetter(j) ==
    /\ jstate[j] = "Failed"
    /\ deliveries[j] >= MaxDeliveries
    /\ jstate' = [jstate EXCEPT ![j] = "DeadLetter"]
    /\ UNCHANGED <<cacheVars, callVars, clientVars, httpVars, histVars, wizVars, jdata, deliveries, jfail, workerVars>>

\* the job is leased and no live worker holds it
Orphan(j) == jstate[j] = "InFlight" /\ \A w \in Workers : wjob[w] # j

\* the lease of a job whose worker died runs out
LeaseExpire(j) ==
    /\ Orphan(j)
    /\ jstate' = [jstate EXCEPT ![j] = "Queued"]
    /\ UNCHANGED <<cacheVars, callVars, clientVars, httpVars, histVars, wizVars, jdata, deliveries, jfail, workerVars>>

\* ------------------------------------------------------------ the worker
\* the worker is back at the queue: no call, no job
WorkerIdle(w) ==
    /\ wpc' = [wpc EXCEPT ![w] = "idle"]
    /\ wjob' = [wjob EXCEPT ![w] = Nil]
    /\ vpc' = [vpc EXCEPT ![w] = "none"]
    /\ varg' = [varg EXCEPT ![w] = Nil]
    /\ vver' = [vver EXCEPT ![w] = FALSE]
    /\ vres' = [vres EXCEPT ![w] = NoResult]
    /\ vpath' = [vpath EXCEPT ![w] = "none"]
    /\ vcomputed' = [vcomputed EXCEPT ![w] = FALSE]
    /\ vat' = vat

\* (mutant) a job is handed to a worker once only: a job that comes back to the
\* queue is never delivered again
LeaseOnce(w, j) ==
    /\ wpc[w] = "idle"
    /\ jstate[j] = "Queued"
    /\ deliveries[j] = 0
    /\ jstate' = [jstate EXCEPT ![j] = "InFlight"]
    /\ wpc' = [wpc EXCEPT ![w] = "verify"]
    /\ wjob' = [wjob EXCEPT ![w] = j]
    /\ deliveries' = [deliveries EXCEPT ![j] = @ + 1]
    /\ jfail' = [jfail EXCEPT ![j] = "none"]
    /\ lastNotif' = [lastNotif EXCEPT ![j] = NoNotif]
    /\ VerifyStart(w, jdata[j])
    /\ UNCHANGED <<cacheVars, clientVars, httpVars, histVars, wizVars, jdata, nsent>>

\* (mutant) the job is handed to the worker and stays available to the others
LeaseNoClaim(w, j) ==
    /\ wpc[w] = "idle"
    /\ jstate[j] = "Queued"
    /\ deliveries[j] < MaxDeliveries
    /\ jstate' = jstate
    /\ wpc' = [wpc EXCEPT ![w] = "verify"]
    /\ wjob' = [wjob EXCEPT ![w] = j]
    /\ deliveries' = [deliveries EXCEPT ![j] = @ + 1]
    /\ jfail' = [jfail EXCEPT ![j] = "none"]
    /\ lastNotif' = [lastNotif EXCEPT ![j] = NoNotif]
    /\ VerifyStart(w, jdata[j])
    /\ UNCHANGED <<cacheVars, clientVars, httpVars, histVars, wizVars, jdata, nsent>>

\* (mutant) the worker is handed a job whatever the queue recorded for it
LeaseAnyState(w, j) ==
    /\ wpc[w] = "idle"
    /\ jstate[j] # "None"
    /\ jstate' = [jstate EXCEPT ![j] = "InFlight"]
    /\ wpc' = [wpc EXCEPT ![w] = "verify"]
    /\ wjob' = [wjob EXCEPT ![w] = j]
    /\ deliveries' = [deliveries EXCEPT ![j] = IF @ < MaxDeliveries THEN @ + 1 ELSE @]
    /\ jfail' = [jfail EXCEPT ![j] = "none"]
    /\ lastNotif' = [lastNotif EXCEPT ![j] = NoNotif]
    /\ VerifyStart(w, jdata[j])
    /\ UNCHANGED <<cacheVars, clientVars, httpVars, histVars, wizVars, jdata, nsent>>

\* the Worker takes a waiting job and runs the processor up to
\* `await verifyMerchant(merchantId)`
Lease(w, j) ==
    /\ wpc[w] = "idle"
    /\ jstate[j] = "Queued"
    /\ jstate' = [jstate EXCEPT ![j] = "InFlight"]
    /\ wpc' = [wpc EXCEPT ![w] = "verify"]
    /\ wjob' = [wjob EXCEPT ![w] = j]
    /\ deliveries' = [deliveries EXCEPT ![j] = @ + 1]
    /\ jfail' = [jfail EXCEPT ![j] = "none"]
    /\ lastNotif' = [lastNotif EXCEPT ![j] = NoNotif]
    /\ VerifyStart(w, jdata[j])
    /\ UNCHANGED <<cacheVars, clientVars, httpVars, histVars, wizVars, jdata, nsent>>

\* (mutant) every notification carries the success text
NotifyMessageAlwaysSuccessful(result) == "Verification successful!"

\* if (result.success) 'Verification successful!' else 'Verification failed!'
NotifyMessage(result) ==
    IF result.success THEN "Verification successful!" ELSE "Verification failed!"

\* return result: the processor's promise resolves, the queue records the job
\* as completed
ProcessorReturns(w) ==
    /\ jstate' = [jstate EXCEPT ![wjob[w]] = "Completed"]
    /\ jfail' = jfail

\* (mutant) the catch block logs the error and does not rethrow it
ProcessorSwallows(w, cause) ==
    /\ jstate' = [jstate EXCEPT ![wjob[w]] = "Completed"]
    /\ jfail' = [jfail EXCEPT ![wjob[w]] = cause]

\* catch (error) { logger.error(...); throw error }: the processor's promise
\* rejects, the queue records the job as failed
ProcessorThrows(w, cause) ==
    /\ jstate' = [jstate EXCEPT ![wjob[w]] = "Failed"]
    /\ jfail' = [jfail EXCEPT ![wjob[w]] = cause]

\* (mutant) the processor stops after verifyMerchant: it neither notifies nor
\* returns nor throws
WorkerNotifyHangs(w) ==
    /\ wpc[w] = "verify"
    /\ vpc[w] = "done"
    /\ wpc' = [wpc EXCEPT ![w] = "hung"]
    /\ UNCHANGED <<cacheVars, callVars, clientVars, httpVars, histVars, wizVars, queueVars, wjob, nsent, lastNotif>>

\* verifyMerchant has returned `result`: sendNotification(merchantId, text) is called
WorkerNotify(w) ==
    /\ wpc[w] = "verify"
    /\ vpc[w] = "done"
    /\ nsent' = [nsent EXCEPT ![wjob[w]] = @ + 1]
    /\ lastNotif' = [lastNotif EXCEPT ![wjob[w]] =
                       [merchantId |-> varg[w], message |-> NotifyMessage(vres[w]),
                        result |-> vres[w], delivered |-> FALSE]]
    /\ wpc' = [wpc EXCEPT ![w] = "notify"]
    /\ UNCHANGED <<cacheVars, callVars, clientVars, httpVars, histVars, wizVars, queueVars, wjob>>

\* (mutant) after the notification the processor also records the verdict in
\* the merchant's profile
WorkerNotifiedMarksProfile(w, delivered) ==
    /\ wpc[w] = "notify"
    /\ lastNotif' = [lastNotif EXCEPT ![wjob[w]].delivered = delivered]
    /\ IF delivered THEN ProcessorReturns(w) ELSE ProcessorThrows(w, "notification")
    /\ WorkerIdle(w)
    /\ onboardingStatus' = IF vres[w].success THEN "verified" ELSE "rejected"
    /\ UNCHANGED <<cacheVars, clientVars, httpVars, histVars, jdata, deliveries, nsent,
                   fpc, fdone, fset, showSuccessPopup, isSubmitting, nsubmit, rows, formVars>>

\* the awaited sendNotification settles.
\* delivered = TRUE: it resolves, the processor logs and returns result;
\* delivered = FALSE: it rejects, control passes to the catch block
WorkerNotified(w, delivered) ==
    /\ wpc[w] = "notify"
    /\ lastNotif' = [lastNotif EXCEPT ![wjob[w]].delivered = delivered]
    /\ IF delivered THEN ProcessorReturns(w) ELSE ProcessorThrows(w, "notification")
    /\ WorkerIdle(w)
    /\ UNCHANGED <<cacheVars, clientVars, httpVars, histVars, wizVars, jdata, deliveries, nsent>>

\* the worker process dies while it holds a job; a fresh worker takes its place
WorkerCrash(w) ==
    /\ wpc[w] # "idle"
    /\ deliveries[wjob[w]] < MaxDeliveries
    /\ WorkerIdle(w)
    /\ UNCHANGED <<cacheVars, clientVars, httpVars, histVars, wizVars, queueVars, nsent, lastNotif>>

\* the verification service the worker awaits rejects (a test double of
\* verifyMerchant that throws): control passes to the catch block
VerifyRejects(w) ==
    /\ wpc[w] = "verify"
    /\ vpc[w] = "get"
    /\ ProcessorThrows(w, "verify")
    /\ WorkerIdle(w)
    /\ UNCHANGED <<cacheVars, clientVars, httpVars, histVars, wizVars, jdata, deliveries, nsent, lastNotif>>

\* -------------------------------------------------- the HTTP entry points
\* verifyMerchant(req.body) with a body whose template conversion throws: the
\* TypeError of line 16 is caught, the template of line 34 throws it again inside
\* the catch block, and the promise rejects
VerifyThrows(p) ==
    /\ vpc' = [vpc EXCEPT ![p] = "threw"]
    /\ varg' = [varg EXCEPT ![p] = Nil]
    /\ vver' = [vver EXCEPT ![p] = FALSE]
    /\ vres' = [vres EXCEPT ![p] = NoResult]
    /\ vpath' = [vpath EXCEPT ![p] = "threw"]
    /\ vcomputed' = [vcomputed EXCEPT ![p] = FALSE]
    /\ vat' = vat

\* router.post(...): the handler receives a request and runs up to
\* `await verifyMerchant(req.body)`
Request(h, route, body) ==
    /\ hpc[h] = "idle"
    /\ nreq < MaxRequests
    /\ nreq' = nreq + 1
    /\ hpc' = [hpc EXCEPT ![h] = "await"]
    /\ hroute' = [hroute EXCEPT ![h] = route]
    /\ hbody' = [hbody EXCEPT ![h] = body]
    /\ hresp' = [hresp EXCEPT ![h] = NoResponse]
    /\ IF TemplateThrows(body) THEN VerifyThrows(h) ELSE VerifyStart(h, TemplateOf(body))
    /\ UNCHANGED <<cacheVars, clientVars, queueVars, workerVars, histVars, wizVars>>

\* /submit: res.json({ success: true, data: result })
SubmitOk(result) ==
    [status |-> 200, text |-> Nil,
     json |-> [success |-> TRUE, data |-> result, message |-> NoMessage]]

\* /submit: res.status(500).json({ success: false, message: 'Server Error' })
SubmitError ==
    [status |-> 500, text |-> Nil,
     json |-> [success |-> FALSE, data |-> NoResult, message |-> "Server Error"]]

\* /external-verification: res.status(200).send('OK')
WebhookOk == [status |-> 200, text |-> "OK", json |-> NoJson]

\* /external-verification: res.status(500).send('Webhook processing failed')
WebhookError == [status |-> 500, text |-> "Webhook processing failed", json |-> NoJson]

\* the awaited verifyMerchant settles and the handler answers: the try branch
\* when it resolved, the catch branch when it rejected
Respond(h) ==
    /\ hpc[h] = "await"
    /\ vpc[h] \in {"done", "threw"}
    /\ hresp' = [hresp EXCEPT ![h] =
                   IF vpc[h] = "done"
                     THEN IF hroute[h] = "submit" THEN SubmitOk(vres[h]) ELSE WebhookOk
                     ELSE IF hroute[h] = "submit" THEN SubmitError ELSE WebhookError]
    /\ hpc' = [hpc EXCEPT ![h] = "idle"]
    /\ UNCHANGED <<cacheVars, callVars, clientVars, queueVars, workerVars, hroute, hbody, nreq,
                   histVars, wizVars>>

\* ------------------------------------------- the onboarding wizard
pipelineVars == <<cacheVars, callVars, clientVars, queueVars, workerVars, httpVars, histVars>>

\* the catch and finally blocks of handleFinalSubmit: a toast, setIsSubmitting(false)
SubmitFails ==
    /\ fpc' = "ended"
    /\ isSubmitting' = FALSE
    /\ UNCHANGED <<fset, showSuccessPopup>>

\* handleFinalSubmit up to its first await: the check of the document paths
\* (return before the try), the field validation (setIsSubmitting(false);
\* return), the user check (throw). The three outcomes are inputs: they are
\* read off onboardingData and the session.
FinalSubmit(input) ==
    /\ fpc \in {"idle", "ended"}
    /\ nsubmit < MaxSubmits
    /\ nsubmit' = nsubmit + 1
    /\ fdone' = <<>>
    /\ fset' = NothingSet
    /\ IF ~input.documents
         THEN fpc' = "ended" /\ UNCHANGED <<isSubmitting, showSuccessPopup>>
         ELSE IF ~input.fields \/ ~input.user
           THEN fpc' = "ended" /\ isSubmitting' = FALSE /\ UNCHANGED showSuccessPopup
           ELSE fpc' = "profile" /\ UNCHANGED <<isSubmitting, showSuccessPopup>>
    /\ UNCHANGED <<pipelineVars, formVars, onboardingStatus, rows>>

\* (mutant) the profile upsert already writes onboarding_status: 'submitted'
UpsertProfileSubmitted(ok) ==
    /\ fpc = "profile"
    /\ IF ok
         THEN /\ onboardingStatus' = "submitted"
              /\ rows' = rows \cup {"merchant_profiles"}
              /\ fdone' = Append(fdone, "profile")
              /\ fset' = [fset EXCEPT !.submitted = TRUE]
              /\ fpc' = "bank"
              /\ UNCHANGED <<isSubmitting, showSuccessPopup>>
         ELSE SubmitFails /\ UNCHANGED <<fdone, onboardingStatus, rows>>
    /\ UNCHANGED <<pipelineVars, formVars, nsubmit>>

\* 1. merchant_profiles upsert with onboarding_status: 'pending'
UpsertProfile(ok) ==
    /\ fpc = "profile"
    /\ IF ok
         THEN /\ onboardingStatus' = "pending"
              /\ rows' = rows \cup {"merchant_profiles"}
              /\ fdone' = Append(fdone, "profile")
              /\ fpc' = "bank"
              /\ UNCHANGED <<fset, isSubmitting, showSuccessPopup>>
         ELSE SubmitFails /\ UNCHANGED <<fdone, onboardingStatus, rows>>
    /\ UNCHANGED <<pipelineVars, formVars, nsubmit>>

\* 2. merchant_bank_details upsert
UpsertBank(ok) ==
    /\ fpc = "bank"
    /\ IF ok
         THEN /\ rows' = rows \cup {"merchant_bank_details"}
              /\ fdone' = Append(fdone, "bank")
              /\ fpc' = "docsDelete"
              /\ UNCHANGED <<fset, isSubmitting, showSuccessPopup>>
         ELSE SubmitFails /\ UNCHANGED <<fdone, rows>>
    /\ UNCHANGED <<pipelineVars, formVars, onboardingStatus, nsubmit>>

\* 3. merchant_documents: delete the existing rows; its outcome is not looked at
DeleteDocuments(ok) ==
    /\ fpc = "docsDelete"
    /\ rows' = IF ok THEN rows \ {"merchant_documents"} ELSE rows
    /\ fpc' = "docsInsert"
    /\ UNCHANGED <<pipelineVars, formVars, fdone, fset, onboardingStatus,
                   showSuccessPopup, isSubmitting, nsubmit>>

\* 3. merchant_documents: insert the rows built from onboardingData.documents
InsertDocuments(ok) ==
    /\ fpc = "docsInsert"
    /\ IF ok
         THEN /\ rows' = rows \cup {"merchant_documents"}
              /\ fdone' = Append(fdone, "docs")
              /\ fpc' = "kyc"
              /\ UNCHANGED <<fset, isSubmitting, showSuccessPopup>>
         ELSE SubmitFails /\ UNCHANGED <<fdone, rows>>
    /\ UNCHANGED <<pipelineVars, formVars, onboardingStatus, nsubmit>>

\* 4. merchant_kyc upsert
UpsertKyc(ok) ==
    /\ fpc = "kyc"
    /\ IF ok
         THEN /\ rows' = rows \cup {"merchant_kyc"}
              /\ fdone' = Append(fdone, "kyc")
              /\ fpc' = "status"
              /\ UNCHANGED <<fset, isSubmitting, showSuccessPopup>>
         ELSE SubmitFails /\ UNCHANGED <<fdone, rows>>
    /\ UNCHANGED <<pipelineVars, formVars, onboardingStatus, nsubmit>>

\* 5. merchant_profiles update to onboarding_status: 'submitted', then
\* setShowSuccessPopup(true) and the finally block
UpdateStatus(ok) ==
    /\ fpc = "status"
    /\ IF ok
         THEN /\ onboardingStatus' = "submitted"
              /\ fdone' = Append(fdone, "status")
              /\ fset' = [submitted |-> TRUE, popup |-> TRUE]
              /\ showSuccessPopup' = TRUE
              /\ isSubmitting' = FALSE
              /\ fpc' = "ended"
         ELSE SubmitFails /\ UNCHANGED <<fdone, onboardingStatus>>
    /\ UNCHANGED <<pipelineVars, formVars, nsubmit, rows>>

\* onClose of the success popup
ClosePopup ==
    /\ showSuccessPopup
    /\ showSuccessPopup' = FALSE
    /\ UNCHANGED <<pipelineVars, formVars, fpc, fdone, fset, onboardingStatus,
                   isSubmitting, nsubmit, rows>>

\* saveRegistrationData, run by handleNextStep on the registration step: the
\* profile upsert with onboarding_status: 'in_progress'; a failure is a toast.
\* Nothing holds the wizard on the review step while a submission is in flight.
SaveRegistration(ok) ==
    /\ ok
    /\ onboardingStatus' = "in_progress"
    /\ rows' = rows \cup {"merchant_profiles"}
    /\ UNCHANGED <<pipelineVars, formVars, fpc, fdone, fset, showSuccessPopup,
                   isSubmitting, nsubmit>>

\* --- document uploads of MerchantRegistration
\* an upload handler up to its await: the handler closes over the data prop of
\* the render it was made in; uploadToSupabase names the file by Date.now()
StartUpload(d) ==
    /\ pending[d] = NoUpload
    /\ nupload < MaxUploads
    /\ nupload' = nupload + 1
    /\ pending' = [pending EXCEPT ![d] = [path |-> nupload + 1, data |-> documents]]
    /\ UNCHANGED <<pipelineVars, submitVars, documents, latest>>

\* handleDataChange: {...prev, ...newData, documents: {...prev.documents,
\* ...newData.documents}}; a key is in newData.documents when it holds a path
MergeDocuments(prevDocs, newDocs) ==
    [k \in DocKeys |-> IF newDocs[k] # NoPath THEN newDocs[k] ELSE prevDocs[k]]

\* the upload settled: on success onDataChange({...data, documents:
\* {...data.documents, [key]: {file, path}}}); on failure a toast
FinishUpload(d, ok) ==
    /\ pending[d] # NoUpload
    /\ pending' = [pending EXCEPT ![d] = NoUpload]
    /\ IF ok
         THEN /\ documents' = MergeDocuments(documents,
                                 [pending[d].data EXCEPT ![d] = pending[d].path])
              /\ latest' = [latest EXCEPT ![d] = pending[d].path]
         ELSE UNCHANGED <<documents, latest>>
    /\ UNCHANGED <<pipelineVars, submitVars, nupload>>

\* ----------------------------------------------------------------- Init
Init ==
    /\ cache = [k \in Keys |-> NoEntry]
    /\ now = 0
    /\ vpc = [p \in Procs |-> "none"]
    /\ varg = [p \in Procs |-> Nil]
    /\ vver = [p \in Procs |-> FALSE]
    /\ vres = [p \in Procs |-> NoResult]
    /\ vpath = [p \in Procs |-> "none"]
    /\ vcomputed = [p \in Procs |-> FALSE]
    /\ vat = [c \in Clients |-> 0]
    /\ ncalls = [c \in Clients |-> 0]
    /\ prev = [c \in Clients |-> NoCall]
    /\ before = [c \in Clients |-> [k \in Keys |-> NoEntry]]
    /\ jstate = [j \in Jobs |-> "None"]
    /\ jdata = [j \in Jobs |-> Nil]
    /\ deliveries = [j \in Jobs |-> 0]
    /\ jfail = [j \in Jobs |-> "none"]
    /\ wpc = [w \in Workers |-> "idle"]
    /\ wjob = [w \in Workers |-> Nil]
    /\ nsent = [j \in Jobs |-> 0]
    /\ lastNotif = [j \in Jobs |-> NoNotif]
    /\ hpc = [h \in Handlers |-> "idle"]
    /\ hroute = [h \in Handlers |-> Nil]
    /\ hbody = [h \in Handlers |-> NoBody]
    /\ hresp = [h \in Handlers |-> NoResponse]
    /\ nreq = 0
    /\ jwrote = [j \in Jobs |-> NoEntry]
    /\ jread = [j \in Jobs |-> NoEntry]
    /\ fpc = "idle"
    /\ fdone = <<>>
    /\ fset = NothingSet
    /\ onboardingStatus = "in_progress"
    /\ showSuccessPopup = FALSE
    /\ isSubmitting = FALSE
    /\ nsubmit = 0
    /\ rows = {"merchant_profiles"}
    /\ documents = [d \in DocKeys |-> NoPath]
    /\ pending = [d \in DocKeys |-> NoUpload]
    /\ nupload = 0
    /\ latest = [d \in DocKeys |-> NoPath]

\* ----------------------------------------- sequential use of the service
NextSeq ==
    \/ \E c \in Clients, m \in Merchants : Call(c, m)
    \/ \E c \in Clients, ok \in BOOLEAN : CacheGet(c, ok)
    \/ \E c \in Clients, r \in BOOLEAN : Compute(c, r)
    \/ \E c \in Clients, ok \in BOOLEAN : CacheSet(c, ok)
    \/ \E c \in Clients : Return(c)
    \/ Tick

SpecSeq == Init /\ [][NextSeq]_vars

\* sequential use of the service with the clock moving in parts of a TTL
NextExpiry ==
    \/ \E c \in Clients, m \in Merchants : Call(c, m)
    \/ \E c \in Clients, ok \in BOOLEAN : CacheGet(c, ok)
    \/ \E c \in Clients, r \in BOOLEAN : Compute(c, r)
    \/ \E c \in Clients, ok \in BOOLEAN : CacheSet(c, ok)
    \/ \E c \in Clients : Return(c)
    \/ TickShort

SpecExpiry == Init /\ [][NextExpiry]_vars

\* the wizard's submissions: saving the registration step and the final submit
NextWizard ==
    \/ \E input \in SubmitInputs : FinalSubmit(input)
    \/ \E ok \in BOOLEAN : UpsertProfile(ok)
    \/ \E ok \in BOOLEAN : UpsertBank(ok)
    \/ \E ok \in BOOLEAN : DeleteDocuments(ok)
    \/ \E ok \in BOOLEAN : InsertDocuments(ok)
    \/ \E ok \in BOOLEAN : UpsertKyc(ok)
    \/ \E ok \in BOOLEAN : UpdateStatus(ok)
    \/ \E ok \in BOOLEAN : SaveRegistration(ok)
    \/ ClosePopup

SpecWizard == Init /\ [][NextWizard]_vars

\* the registration step: document uploads in flight together
NextUpload ==
    \/ \E d \in DocKeys : StartUpload(d)
    \/ \E d \in DocKeys, ok \in BOOLEAN : FinishUpload(d, ok)

SpecUpload == Init /\ [][NextUpload]_vars

\* ------------------------------------------- the queue-and-worker pipeline
QueueStep ==
    \/ \E j \in Jobs, m \in Merchants : Enqueue(j, m)
    \/ \E j \in Jobs : Retry(j)
    \/ \E j \in Jobs : Requeue(j)
    \/ \E j \in Jobs : DeadLetter(j)
    \/ \E j \in Jobs : LeaseExpire(j)

WorkerStep ==
    \/ \E w \in Workers, j \in Jobs : Lease(w, j)
    \/ \E w \in Workers, ok \in BOOLEAN : CacheGet(w, ok)
    \/ \E w \in Workers, r \in BOOLEAN : Compute(w, r)
    \/ \E w \in Workers, ok \in BOOLEAN : CacheSet(w, ok)
    \/ \E w \in Workers : WorkerNotify(w)
    \/ \E w \in Workers, delivered \in BOOLEAN : WorkerNotified(w, delivered)
    \/ \E w \in Workers : WorkerCrash(w)

Next ==
    \/ QueueStep
    \/ WorkerStep
    \/ Tick

Spec == Init /\ [][Next]_vars

\* the queue and the workers alone, the clock left out: job states and leases
\* do not depend on the time of day
NextQueue ==
    \/ QueueStep
    \/ WorkerStep

SpecQueue == Init /\ [][NextQueue]_vars

\* the steps by which a running worker carries its job's processing forward
WorkerProgress(w) ==
    \/ \E ok \in BOOLEAN : CacheGet(w, ok)
    \/ \E r \in BOOLEAN : Compute(w, r)
    \/ \E ok \in BOOLEAN : CacheSet(w, ok)
    \/ WorkerNotify(w)
    \/ \E delivered \in BOOLEAN : WorkerNotified(w, delivered)

\* the queue's timers fire (lease expiry, retry, dead-lettering), a waiting job
\* is handed to an idle worker, and a worker that is running keeps running
QueueFairness ==
    /\ \A j \in Jobs : WF_vars(LeaseExpire(j))
    /\ \A j \in Jobs : WF_vars(Retry(j))
    /\ \A j \in Jobs : WF_vars(Requeue(j))
    /\ \A j \in Jobs : WF_vars(DeadLetter(j))
    /\ \A j \in Jobs : WF_vars(\E w \in Workers : Lease(w, j))
    /\ \A w \in Workers : WF_vars(WorkerProgress(w))

\* the queue and the workers with every job submitted by one merchant: how a
\* job moves through the queue does not depend on whose job it is
NextOneMerchant ==
    \/ \E j \in Jobs : Enqueue(j, "M-001")
    \/ \E j \in Jobs : Retry(j)
    \/ \E j \in Jobs : Requeue(j)
    \/ \E j \in Jobs : DeadLetter(j)
    \/ \E j \in Jobs : LeaseExpire(j)
    \/ WorkerStep

SpecQueueFair == Init /\ [][NextOneMerchant]_vars /\ QueueFairness

\* the queue, the workers and the clock with every job submitted by one
\* merchant, each job's cache writes noted
NextRedeliver ==
    \/ \E j \in Jobs : Enqueue(j, "M-001")
    \/ \E j \in Jobs : Retry(j)
    \/ \E j \in Jobs : Requeue(j)
    \/ \E j \in Jobs : DeadLetter(j)
    \/ \E j \in Jobs : LeaseExpire(j)
    \/ \E w \in Workers, j \in Jobs : Lease(w, j)
    \/ \E w \in Workers, ok \in BOOLEAN : CacheGet(w, ok)
    \/ \E w \in Workers, r \in BOOLEAN : Compute(w, r)
    \/ \E w \in Workers, ok \in BOOLEAN : CacheSetTracked(w, ok)
    \/ \E w \in Workers : WorkerNotify(w)
    \/ \E w \in Workers, delivered \in BOOLEAN : WorkerNotified(w, delivered)
    \/ \E w \in Workers : WorkerCrash(w)
    \/ Tick

SpecRedeliver == Init /\ [][NextRedeliver]_vars

\* two jobs of one merchant, their workers and the clock, a job being delivered
\* again when its notification was rejected; the entry each call is served from
\* or writes is noted
NextNotify ==
    \/ \E j \in Jobs : Enqueue(j, "M-001")
    \/ \E j \in Jobs : Retry(j)
    \/ \E j \in Jobs : Requeue(j)
    \/ \E j \in Jobs : DeadLetter(j)
    \/ \E w \in Workers, j \in Jobs : Lease(w, j)
    \/ \E w \in Workers : CacheGetTracked(w, TRUE)
    \/ \E w \in Workers, r \in BOOLEAN : Compute(w, r)
    \/ \E w \in Workers : CacheSetTracked(w, TRUE)
    \/ \E w \in Workers : WorkerNotify(w)
    \/ \E w \in Workers, delivered \in BOOLEAN : WorkerNotified(w, delivered)
    \/ Tick

SpecNotify == Init /\ [][NextNotify]_vars

\* the worker wired to a verification service that may also throw
NextStub ==
    \/ NextQueue
    \/ \E w \in Workers : VerifyRejects(w)

SpecStub == Init /\ [][NextStub]_vars

\* the two routes serving requests
NextHttp ==
    \/ \E h \in Handlers, route \in Routes, body \in Bodies : Request(h, route, body)
    \/ \E h \in Handlers, ok \in BOOLEAN : CacheGet(h, ok)
    \/ \E h \in Handlers, r \in BOOLEAN : Compute(h, r)
    \/ \E h \in Handlers, ok \in BOOLEAN : CacheSet(h, ok)
    \/ \E h \in Handlers : Respond(h)
    \/ Tick

SpecHttp == Init /\ [][NextHttp]_vars

\* the merchant's wizard next to the pipeline that verifies the merchant, which
\* is entered one way in a run: by the requests of one connection, or by the
\* deliveries of one job to one worker
NextOnboarding ==
    \/ NextWizard
    \/ \E route \in Routes, body \in Bodies :
           /\ jstate["j1"] = "None"
           /\ body.merchantId = "M-001"
           /\ Request("h1", route, body)
    \/ \E ok \in BOOLEAN : CacheGet("h1", ok)
    \/ \E r \in BOOLEAN : Compute("h1", r)
    \/ \E ok \in BOOLEAN : CacheSet("h1", ok)
    \/ Respond("h1")
    \/ nreq = 0 /\ Enqueue("j1", "M-001")
    \/ Retry("j1")
    \/ Requeue("j1")
    \/ DeadLetter("j1")
    \/ LeaseExpire("j1")
    \/ Lease("w1", "j1")
    \/ WorkerProgress("w1")
    \/ WorkerCrash("w1")

SpecOnboarding == Init /\ [][NextOnboarding]_vars

\* ======================================================================
\* Claims about verifyMerchant, checked under SpecSeq
\* ======================================================================

\* the client's current call has returned and follows a completed call for the
\* same merchant, read inside the TTL window of the entry that call wrote or read
SecondInWindow(c) ==
    /\ vpc[c] = "done"
    /\ prev[c].merchantId = varg[c]
    /\ prev[c].path \in {"hit", "miss"}
    /\ vat[c] < prev[c].exp

\* C1: Idempotence. When verifyMerchant is called twice in succession for the same
\* merchant and the second call reads the cache inside the TTL window of the first,
\* the second call performs no verification computation (any computation was the
\* first call's), and both calls return the same success value. The calls meant
\* are calls that return a verification outcome: a call that left through the
\* catch block (a cache operation threw) returns the error result instead.
C1_Idempotent ==
    \A c \in Clients :
        SecondInWindow(c) =>
            /\ ~vcomputed[c]
            /\ vpath[c] # "error" =>
                   /\ vpath[c] = "hit"
                   /\ vres[c].success = prev[c].success

C1_Witness ==
    \E c \in Clients :
        /\ SecondInWindow(c)
        /\ prev[c].path = "miss"
        /\ ~prev[c].success
        /\ vpath[c] = "hit"
        /\ vat[c] > 0

\* C3: The cache-miss path caches both polarities. A call that computed an outcome
\* and returned it leaves the cache entry of the merchant equal to "true" for a
\* computed true and to "false" for a computed false; after a computed false, a
\* second call inside the TTL returns success = false without recomputation.
C3_BothPolarities ==
    \A c \in Clients :
        /\ (vpc[c] = "done" /\ vpath[c] = "miss") =>
               /\ vcomputed[c]
               /\ vres[c].success = vver[c]
               /\ cache[Key(varg[c])].val = (IF vver[c] THEN "true" ELSE "false")
        /\ (SecondInWindow(c) /\ prev[c].path = "miss" /\ ~prev[c].success
                /\ vpath[c] # "error") =>
               /\ ~vres[c].success
               /\ ~vcomputed[c]

C3_Witness ==
    \E c \in Clients :
        /\ vpc[c] = "done"
        /\ vpath[c] = "miss"
        /\ ~vver[c]
        /\ cache[Key(varg[c])].val = "false"
        /\ prev[c].merchantId # varg[c]

\* C4: TTL expiry. A call that reads the cache 3600 seconds or more after the
\* merchant's entry was written finds no entry: it is a cache miss, it recomputes
\* the outcome instead of returning the stale value, and it writes a fresh entry
\* holding the recomputed outcome, which expires 3600 seconds after that write.
\* (A call whose cache read or write throws returns the error result instead.)
C4_Expiry ==
    \A c \in Clients :
        (/\ vpc[c] = "done"
         /\ vpath[c] # "error"
         /\ before[c][Key(varg[c])] # NoEntry
         /\ vat[c] >= before[c][Key(varg[c])].at + 3600) =>
            /\ vpath[c] = "miss"
            /\ vcomputed[c]
            /\ vres[c].success = vver[c]
            /\ cache[Key(varg[c])].val = (IF vver[c] THEN "true" ELSE "false")
            /\ cache[Key(varg[c])].at >= vat[c]
            /\ cache[Key(varg[c])].exp = cache[Key(varg[c])].at + 3600

C4_Witness ==
    \E c \in Clients :
        /\ vpc[c] = "done"
        /\ vpath[c] = "miss"
        /\ before[c][Key(varg[c])].val = "true"
        /\ vat[c] = before[c][Key(varg[c])].at + 3600
        /\ ~vver[c]

\* C5: Failure result is not cached. When a cache read or a cache write inside
\* verifyMerchant throws, the call does not throw: it returns
\* { success: false, message: 'Internal error during verification' }, and the
\* cache is exactly what it was when the call began.
C5_FailureNotCached ==
    \A c \in Clients :
        vpath[c] = "error" =>
            /\ vpc[c] \in {"done", "none"}
            /\ vres[c].success = FALSE
            /\ vres[c].message = "Internal error during verification"
            /\ cache = before[c]

C5_Witness ==
    \E c \in Clients :
        /\ vpc[c] = "done"
        /\ vpath[c] = "error"
        /\ vcomputed[c]
        /\ vver[c]
        /\ before[c][Key(varg[c])] = NoEntry

\* ======================================================================
\* Claims about the worker and the queue, checked under Spec and SpecStub
\* ======================================================================

\* C2: Cache hit path. Whenever the read of a verifyMerchant call finds an
\* unexpired entry holding "true" or "false", the call returns
\* { success: cachedBoolean } with no message, and that step performs no
\* verification computation, writes nothing to the cache and calls no
\* notification.
C2_CacheHit ==
    [][\A p \in Procs :
          (/\ vpc[p] = "get"
           /\ vpc'[p] \in {"done", "compute"}
           /\ vpath'[p] # "error"
           /\ cache[Key(varg[p])].val \in {"true", "false"}
           /\ now < cache[Key(varg[p])].exp) =>
              /\ vpc'[p] = "done"
              /\ vres'[p] = [success |-> (cache[Key(varg[p])].val = "true"),
                             message |-> "undefined"]
              /\ ~vcomputed'[p]
              /\ cache' = cache
              /\ nsent' = nsent
              /\ lastNotif' = lastNotif]_vars

C2_Witness ==
    \E w \in Workers :
        /\ wpc[w] = "verify"
        /\ vpc[w] = "done"
        /\ vpath[w] = "hit"
        /\ ~vres[w].success
        /\ cache[Key(varg[w])].val = "false"

\* C6: An infrastructure failure during verification (the cache read or write
\* throwing) is not a negative verdict: no job whose verification hit one is
\* Completed with a 'Verification failed!' notification (it is retried instead).
C6_InfraFailureRetried ==
    \A j \in Jobs :
        ~(/\ jstate[j] = "Completed"
          /\ lastNotif[j].result.message = "Internal error during verification"
          /\ lastNotif[j].message = "Verification failed!")

\* C7: Worker retry on transient failure. When the verification service call made
\* by the job processor throws, the processor rethrows to the queue: the job is
\* recorded Failed and handed to the queue's retry machinery (queued again, or
\* dead-lettered once its budget is used up); it is never Completed and it never
\* leaves the queue's bookkeeping.
C7_WorkerRethrows ==
    \A j \in Jobs :
        jfail[j] = "verify" =>
            /\ jstate[j] \in {"Failed", "Retry", "Queued", "DeadLetter"}
            /\ jstate[j] = "DeadLetter" => deliveries[j] >= MaxDeliveries
            /\ lastNotif[j] = NoNotif

C7_Witness ==
    \E j \in Jobs :
        /\ jfail[j] = "verify"
        /\ jstate[j] = "Queued"
        /\ deliveries[j] = 1

\* C8: Notification fires exactly once per completed job: a Completed job has had
\* sendNotification called exactly once over all its deliveries.
C8_NotifiedExactlyOnce ==
    \A j \in Jobs : jstate[j] = "Completed" => nsent[j] = 1

\* C9: On every result verifyMerchant returns to the processor, the worker calls
\* sendNotification for the job's merchantId, with 'Verification successful!' when
\* result.success is true and 'Verification failed!' otherwise; the call is made
\* with the returned result in hand and before the job is reported Completed.
C9_NotifyOnResult ==
    /\ \A j \in Jobs :
          lastNotif[j] # NoNotif =>
              /\ lastNotif[j].merchantId = jdata[j]
              /\ lastNotif[j].result.message # "pending"
              /\ lastNotif[j].result.success => lastNotif[j].message = "Verification successful!"
              /\ ~lastNotif[j].result.success => lastNotif[j].message = "Verification failed!"
    /\ \A j \in Jobs : jstate[j] \in {"Completed", "Failed"} => lastNotif[j] # NoNotif
    /\ \A w \in Workers :
          wpc[w] = "notify" => (vpc[w] = "done" /\ lastNotif[wjob[w]].result = vres[w])

C9_Witness ==
    \E j \in Jobs :
        /\ jstate[j] = "Completed"
        /\ lastNotif[j].message = "Verification failed!"
        /\ lastNotif[j].result = [success |-> FALSE, message |-> "undefined"]
        /\ lastNotif[j].delivered

\* C10: A Notification Sink failure does not affect job completion: no job is
\* recorded Failed because sendNotification threw after verifyMerchant had
\* returned a result.
C10_NotifyFailureKeepsJob ==
    \A j \in Jobs : ~(jstate[j] = "Failed" /\ jfail[j] = "notification")

\* C11: End-to-end scenario (cache miss). A job whose delivery found no cache
\* entry for its merchant and computed success = true, and whose notification was
\* delivered, ends Completed, with sendNotification called with
\* (merchantId, 'Verification successful!') and, no other job being about the same
\* merchant, with the cache holding merchant_verification:<merchantId> = "true"
\* under a 3600 second expiry.
C11_EndToEndMiss ==
    \A j \in Jobs :
        (/\ lastNotif[j].result = [success |-> TRUE, message |-> "Verified successfully"]
         /\ lastNotif[j].delivered) =>
            /\ jstate[j] = "Completed"
            /\ nsent[j] >= 1
            /\ lastNotif[j].merchantId = jdata[j]
            /\ lastNotif[j].message = "Verification successful!"
            /\ (\A i \in Jobs \ {j} : jdata[i] # jdata[j]) =>
                   /\ cache["merchant_verification:" \o jdata[j]].val = "true"
                   /\ cache["merchant_verification:" \o jdata[j]].exp
                          = cache["merchant_verification:" \o jdata[j]].at + 3600

C11_Witness ==
    \E j \in Jobs :
        /\ jstate[j] = "Completed"
        /\ jdata[j] = "M-001"
        /\ deliveries[j] = 1
        /\ nsent[j] = 1
        /\ lastNotif[j] = [merchantId |-> "M-001", message |-> "Verification successful!",
                           result |-> [success |-> TRUE, message |-> "Verified successfully"],
                           delivered |-> TRUE]
        /\ cache["merchant_verification:M-001"].val = "true"
        /\ \A i \in Jobs \ {j} : jstate[i] = "None"

\* C12: End-to-end scenario (cache hit). A job whose merchant has an unexpired
\* cache entry "false" when the worker reads the cache: the verification
\* computation is not invoked and the call returns success = false; the worker
\* then calls sendNotification with (merchantId, 'Verification failed!'); and
\* once that call has resolved the job is Completed.
C12_EndToEndHit ==
    [][\A w \in Workers :
          /\ (/\ vpc[w] = "get"
              /\ vpc'[w] \in {"done", "compute"}
              /\ vpath'[w] # "error"
              /\ cache["merchant_verification:" \o jdata[wjob[w]]].val = "false"
              /\ now < cache["merchant_verification:" \o jdata[wjob[w]]].exp) =>
                 /\ vpc'[w] = "done"
                 /\ ~vcomputed'[w]
                 /\ vres'[w] = [success |-> FALSE, message |-> "undefined"]
                 /\ cache' = cache
          /\ (/\ wpc[w] = "verify"
              /\ wpc'[w] = "notify"
              /\ vres[w] = [success |-> FALSE, message |-> "undefined"]) =>
                 /\ ~vcomputed[w]
                 /\ nsent'[wjob[w]] = nsent[wjob[w]] + 1
                 /\ lastNotif'[wjob[w]].merchantId = jdata[wjob[w]]
                 /\ lastNotif'[wjob[w]].message = "Verification failed!"
          /\ (/\ wpc[w] = "notify"
              /\ wpc'[w] = "idle"
              /\ lastNotif'[wjob[w]].delivered
              /\ vres[w] = [success |-> FALSE, message |-> "undefined"]) =>
                 /\ ~vcomputed[w]
                 /\ jstate'[wjob[w]] = "Completed"]_vars

C12_Witness ==
    \E j \in Jobs :
        /\ jstate[j] = "Completed"
        /\ jdata[j] = "M-002"
        /\ deliveries[j] = 1
        /\ nsent[j] = 1
        /\ lastNotif[j] = [merchantId |-> "M-002", message |-> "Verification failed!",
                           result |-> [success |-> FALSE, message |-> "undefined"],
                           delivered |-> TRUE]
        /\ cache["merchant_verification:M-002"].val = "false"

\* C17 (as stated): every result with success = false that verifyMerchant
\* returns for a negative verdict, freshly computed or served from the cache,
\* carries a message.
C17_NegativeVerdictHasMessage ==
    \A p \in Procs :
        (vpc[p] = "done" /\ vpath[p] \in {"hit", "miss"} /\ ~vres[p].success) =>
            vres[p].message # "undefined"

\* C17 (amended): a negative verdict is surfaced as success = false and a
\* 'Verification failed!' notification is sent for it; a freshly computed
\* negative verdict carries the message 'Verification failed', one served from
\* the cache carries no message.
C17_NegativeVerdictSurfaced ==
    /\ \A p \in Procs :
          (vpc[p] = "done" /\ vpath[p] = "miss" /\ ~vver[p]) =>
              vres[p] = [success |-> FALSE, message |-> "Verification failed"]
    /\ \A p \in Procs :
          (vpc[p] = "done" /\ vpath[p] = "hit" /\ ~vres[p].success) =>
              vres[p].message = "undefined"
    /\ \A w \in Workers :
          (wpc[w] = "notify" /\ vpath[w] \in {"hit", "miss"} /\ ~vres[w].success) =>
              /\ lastNotif[wjob[w]].merchantId = jdata[wjob[w]]
              /\ lastNotif[wjob[w]].message = "Verification failed!"

\* a worker has sent 'Verification failed!' for a negative verdict served from
\* the cache, after the job that computed the verdict sent it for the fresh one
C17_Witness ==
    \E w \in Workers, j \in Jobs :
        /\ wpc[w] = "notify"
        /\ vpath[w] = "hit"
        /\ vres[w] = [success |-> FALSE, message |-> "undefined"]
        /\ lastNotif[wjob[w]].message = "Verification failed!"
        /\ j # wjob[w]
        /\ lastNotif[j].result = [success |-> FALSE, message |-> "Verification failed"]
        /\ lastNotif[j].message = "Verification failed!"

\* the moves of the per-job state machine as the claim lists them ("None": the
\* job has not been submitted yet)
ClaimedMoves ==
    {<<"None", "Queued">>, <<"Queued", "InFlight">>, <<"InFlight", "Completed">>,
     <<"InFlight", "Failed">>, <<"Failed", "Retry">>, <<"Retry", "Queued">>,
     <<"Failed", "DeadLetter">>}

\* C19 (as stated): every job only ever moves along Queued -> InFlight ->
\* Completed, InFlight -> Failed -> Retry -> Queued or InFlight -> Failed ->
\* DeadLetter; Completed and DeadLetter are terminal and a job is never Completed
\* without having been InFlight.
C19_JobStateMachine ==
    [][\A j \in Jobs :
          jstate'[j] # jstate[j] => <<jstate[j], jstate'[j]>> \in ClaimedMoves]_vars

\* C19 (amended): as stated, with one more move: an InFlight job whose worker
\* died without acknowledging it (no worker holds it) goes back to Queued when
\* its lease expires.
C19_JobStateMachineWithLease ==
    [][\A j \in Jobs :
          jstate'[j] # jstate[j] =>
              \/ <<jstate[j], jstate'[j]>> \in ClaimedMoves
              \/ /\ jstate[j] = "InFlight"
                 /\ jstate'[j] = "Queued"
                 /\ \A w \in Workers : wjob[w] # j]_vars

\* one job was dead-lettered after using up its deliveries; the other, delivered
\* once, is Queued again with no failure recorded: its worker died and the lease
\* expired
C19_Witness ==
    \E i, j \in Jobs :
        /\ jstate[i] = "DeadLetter"
        /\ deliveries[i] = MaxDeliveries
        /\ jstate[j] = "Queued"
        /\ deliveries[j] = 1
        /\ jfail[j] = "none"

\* what a job execution on worker w owns: the processor's and the call's locals
WorkerLocals(w) ==
    <<wpc[w], wjob[w], vpc[w], varg[w], vver[w], vres[w], vpath[w], vcomputed[w]>>

\* what the queue and the sink record about job j
JobRecord(j) == <<jstate[j], jdata[j], deliveries[j], jfail[j], nsent[j], lastNotif[j]>>

\* C20: With several workers running, a job is held by at most one worker at a
\* time and a job a worker holds is InFlight, so at most one verification
\* computation is in flight per job; and a step of one job execution changes
\* nothing of another execution: only its own locals, its own job's record and
\* the cache.
C20_DisjointLeases ==
    [][/\ \A j \in Jobs : Cardinality({w \in Workers : wjob'[w] = j}) <= 1
       /\ \A w \in Workers : wjob'[w] # Nil => jstate'[wjob'[w]] = "InFlight"
       /\ \A j \in Jobs :
             Cardinality({w \in Workers : wjob'[w] = j /\ vpc'[w] \in {"get", "compute", "set"}}) <= 1
       /\ \A w \in Workers :
             WorkerLocals(w)' # WorkerLocals(w) =>
                 /\ \A v \in Workers \ {w} : WorkerLocals(v)' = WorkerLocals(v)
                 /\ \A j \in Jobs \ {wjob[w], wjob'[w]} : JobRecord(j)' = JobRecord(j)]_vars

\* two workers hold two jobs of the same merchant, each between its computation
\* and its cache write
C20_Witness ==
    /\ wjob["w1"] \in Jobs
    /\ wjob["w2"] \in Jobs
    /\ wjob["w1"] # wjob["w2"]
    /\ jdata[wjob["w1"]] = jdata[wjob["w2"]]
    /\ vpc["w1"] = "set"
    /\ vpc["w2"] = "set"

\* ======================================================================
\* Claims about the HTTP entry points, checked under SpecHttp
\* ======================================================================

\* the handler has answered its current request
Responded(h) == hpc[h] = "idle" /\ hresp[h] # NoResponse

\* C13: The webhook handler answers HTTP 200 with the text 'OK' when
\* verification processing succeeded, and HTTP 500 when it failed, that is when
\* an error occurred while driving the verification (a cache operation that
\* threw, or a call that threw).
C13_WebhookStatus ==
    \A h \in Handlers :
        (Responded(h) /\ hroute[h] = "webhook") =>
            IF vpath[h] \in {"hit", "miss"}
              THEN hresp[h].status = 200 /\ hresp[h].text = "OK"
              ELSE hresp[h].status = 500

\* C14: The submission handler answers { success: true, data: result } when
\* processing succeeded and HTTP 500 with { success: false, message } when it
\* failed; the top-level success flag is true only when no error occurred while
\* processing the submission.
C14_SubmitResponse ==
    \A h \in Handlers :
        (Responded(h) /\ hroute[h] = "submit") =>
            /\ IF vpath[h] \in {"hit", "miss"}
                 THEN /\ hresp[h].status = 200
                      /\ hresp[h].json = [success |-> TRUE, data |-> vres[h],
                                          message |-> "undefined"]
                 ELSE /\ hresp[h].status = 500
                      /\ ~hresp[h].json.success
                      /\ hresp[h].json.message # "undefined"
            /\ hresp[h].json.success => vpath[h] \in {"hit", "miss"}

\* C15: Each entry point enqueues a VerificationJob for the merchant of the
\* request and answers without waiting for the verification: when the response is
\* sent a job for that merchant is in the queue and the handler has not awaited a
\* verification call to its end.
C15_RespondsPromptly ==
    \A h \in Handlers :
        Responded(h) =>
            /\ \E j \in Jobs : jstate[j] # "None" /\ jdata[j] = hbody[h].merchantId
            /\ vpc[h] \notin {"done", "threw"}

\* C16: Every cache entry written has the key merchant_verification:<merchantId>
\* of a merchant identifier, holds "true" or "false", and expires 3600 seconds
\* after it was written.
C16_CacheEntryShape ==
    \A k \in DOMAIN cache :
        cache[k] # NoEntry =>
            /\ \E m \in Merchants : k = "merchant_verification:" \o m
            /\ cache[k].val \in {"true", "false"}
            /\ cache[k].exp = cache[k].at + 3600

\* C18: No internal error detail reaches the client. Every HTTP 500 response is
\* the fixed response of its route ('Server Error' / 'Webhook processing failed')
\* and every failure result verifyMerchant returns from its catch block is the
\* fixed { success: false, message: 'Internal error during verification' }, so
\* two responses to different underlying errors do not differ.
C18_NoErrorDetail ==
    /\ \A h \in Handlers :
          hresp[h].status = 500 =>
              hresp[h] = IF hroute[h] = "submit"
                           THEN [status |-> 500, text |-> Nil,
                                 json |-> [success |-> FALSE, data |-> NoResult,
                                           message |-> "Server Error"]]
                           ELSE [status |-> 500, text |-> "Webhook processing failed",
                                 json |-> NoJson]
    /\ \A p \in Procs :
          vpath[p] = "error" =>
              vres[p] = [success |-> FALSE, message |-> "Internal error during verification"]
    /\ \A p, q \in Procs : (vpath[p] = "error" /\ vpath[q] = "error") => vres[p] = vres[q]
    /\ \A g, h \in Handlers :
          (Responded(g) /\ Responded(h) /\ hroute[g] = hroute[h]
             /\ vpath[g] \in {"error", "threw"} /\ vpath[h] \in {"error", "threw"}
             /\ vpath[g] = vpath[h]) => hresp[g] = hresp[h]

\* one request was answered 500 after its call threw; another request, whose call
\* caught a rejected redis.set, was answered too
C18_Witness ==
    /\ hresp["h1"].status = 500
    /\ vpath["h1"] = "threw"
    /\ Responded("h2")
    /\ vpath["h2"] = "error"
    /\ vcomputed["h2"]

\* ======================================================================
\* Claims about delivery and termination, checked under SpecQueueFair
\* ======================================================================

\* C21: At-least-once delivery. A job left InFlight by a worker that died
\* without acknowledging it becomes Queued again (its lease expires) and is then
\* handed to a worker again; it does not stay without a holder.
C21_AtLeastOnce ==
    \A j \in Jobs :
        /\ Orphan(j) ~> (jstate[j] = "Queued")
        /\ Orphan(j) ~> (\E w \in Workers : wjob[w] = j /\ jstate[j] = "InFlight")

\* a job on its second delivery with no failure recorded before it: it came back
\* through the expiry of a dead worker's lease
C21_Witness ==
    \E j \in Jobs, w \in Workers :
        /\ jstate[j] = "InFlight"
        /\ wjob[w] = j
        /\ deliveries[j] = 2
        /\ nsent[j] = 0

\* C22: Every enqueued job eventually reaches a terminal state, Completed or
\* DeadLetter, given running workers and a bounded retry budget.
C22_JobTerminates ==
    \A j \in Jobs : (jstate[j] # "None") ~> (jstate[j] \in {"Completed", "DeadLetter"})

\* both terminal states reached, the dead-lettered job after its last delivery
C22_Witness ==
    \E i, j \in Jobs :
        /\ jstate[i] = "Completed"
        /\ jstate[j] = "DeadLetter"
        /\ deliveries[j] = MaxDeliveries

\* ======================================================================
\* Claims about re-delivery and races, checked under SpecRedeliver
\* ======================================================================

\* worker w is at the cache read of a repeated delivery of its job, inside the
\* TTL of the entry the job's earlier processing wrote
RepeatedRead(w) ==
    /\ wpc[w] = "verify"
    /\ vpc[w] = "get"
    /\ deliveries[wjob[w]] >= 2
    /\ jwrote[wjob[w]] # NoEntry
    /\ now < jwrote[wjob[w]].exp

\* C23 (as stated): a job delivered again within the TTL of the entry its earlier
\* processing wrote gets the same verification outcome as that processing
\* computed, and the cached value is left unchanged.
C23_RepeatSameOutcome ==
    [][\A w \in Workers :
          (RepeatedRead(w) /\ vpc'[w] # "get" /\ wjob'[w] = wjob[w] /\ vpath'[w] # "error") =>
              /\ vpc'[w] = "done"
              /\ vres'[w].success = (jwrote[wjob[w]].val = "true")
              /\ cache' = cache]_vars

\* C23 (amended): the same, when the repeated read finds the entry the earlier
\* processing wrote, that is when no overlapping job of the same merchant has
\* replaced it.
C23_RepeatSameOutcomeUnlessReplaced ==
    [][\A w \in Workers :
          (/\ RepeatedRead(w) /\ vpc'[w] # "get" /\ wjob'[w] = wjob[w] /\ vpath'[w] # "error"
           /\ cache["merchant_verification:" \o jdata[wjob[w]]] = jwrote[wjob[w]]) =>
              /\ vpc'[w] = "done"
              /\ ~vcomputed'[w]
              /\ vres'[w].success = (jwrote[wjob[w]].val = "true")
              /\ cache' = cache]_vars

\* a second delivery has been served from the entry the first delivery wrote
C23_Witness ==
    \E w \in Workers :
        /\ wpc[w] = "verify"
        /\ vpc[w] = "done"
        /\ vpath[w] = "hit"
        /\ deliveries[wjob[w]] = 2
        /\ jwrote[wjob[w]] # NoEntry
        /\ cache["merchant_verification:M-001"] = jwrote[wjob[w]]
        /\ vres[w].success = (jwrote[wjob[w]].val = "true")

\* C24: Race on one cache key. Two jobs of one merchant that both read a miss
\* both compute and both write; every write replaces whatever entry is there
\* with the writer's own outcome, and nothing else changes the entry, so after
\* both have finished the entry is the one written last.
C24_LastWriterWins ==
    [][/\ \A w \in Workers :
             (vpc[w] = "set" /\ vpc'[w] = "done" /\ vpath'[w] = "miss") =>
                 /\ cache'["merchant_verification:" \o jdata[wjob[w]]]
                        = [val |-> IF vver[w] THEN "true" ELSE "false",
                           exp |-> now + 3600, at |-> now]
                 /\ jwrote'[wjob[w]] = cache'["merchant_verification:" \o jdata[wjob[w]]]
       /\ cache' # cache =>
             \E w \in Workers : vpc[w] = "set" /\ vpc'[w] = "done" /\ vpath'[w] = "miss"
       /\ \A k \in DOMAIN cache :
             cache'[k] # NoEntry => \E j \in Jobs : cache'[k] = jwrote'[j]]_vars

\* both jobs read a miss, computed different outcomes and wrote them; the entry
\* is the later write, which replaced the other outcome
C24_Witness ==
    /\ vpath["w1"] = "miss"
    /\ vpath["w2"] = "miss"
    /\ vpc["w1"] = "done"
    /\ vpc["w2"] = "done"
    /\ wjob["w1"] # wjob["w2"]
    /\ vver["w1"] # vver["w2"]
    /\ jwrote[wjob["w1"]].val # jwrote[wjob["w2"]].val
    /\ cache["merchant_verification:M-001"] = jwrote[wjob["w2"]]

\* ======================================================================
\* Claims about the expiry clock, checked under SpecExpiry
\* ======================================================================

\* C25: Cache set semantics as verifyMerchant uses them. A write stores the
\* outcome over whatever entry the key had, with the expiry clock started at the
\* time of the write; a read changes nothing of the entry; so a read finds the
\* entry exactly while fewer than 3600 seconds have passed since its last write,
\* however often it was read in between.
C25_ExpiryFromLastWrite ==
    [][\A p \in Procs :
          /\ (vpc[p] = "set" /\ vpc'[p] = "done" /\ vpath'[p] = "miss") =>
                cache'["merchant_verification:" \o varg[p]]
                    = [val |-> IF vver[p] THEN "true" ELSE "false",
                       exp |-> now + 3600, at |-> now]
          /\ (vpc[p] = "get" /\ vpc'[p] # "get") => cache' = cache
          /\ (vpc[p] = "get" /\ vpc'[p] # "get" /\ vpath'[p] # "error") =>
                (vpath'[p] = "hit" <=>
                    /\ cache["merchant_verification:" \o varg[p]] # NoEntry
                    /\ now < cache["merchant_verification:" \o varg[p]].at + 3600)]_vars

\* the third call for a merchant reads a miss 3600 seconds after the first call
\* wrote the entry, the second call having been served from it in between
C25_Witness ==
    \E c \in Clients :
        /\ ncalls[c] = 3
        /\ prev[c].path = "hit"
        /\ prev[c].merchantId = varg[c]
        /\ prev[c].exp = 3600
        /\ vpc[c] = "compute"
        /\ now = 3600
        /\ cache["merchant_verification:" \o varg[c]].at = 0

\* ======================================================================
\* Claims about the onboarding wizard, checked under SpecWizard
\* ======================================================================

\* C29: Final submission ordering. A submission sets onboarding_status to
\* 'submitted' only after its profile upsert, bank-details upsert, document
\* insert and KYC upsert have succeeded, in that order; a submission in which a
\* step failed never sets the status to 'submitted' and does not show the
\* success popup; and isSubmitting is false when the handler has ended.
C29_FinalSubmitOrder ==
    /\ fset.submitted => fdone = AllSteps
    /\ fset.popup => fset.submitted
    /\ (fpc = "ended" /\ fdone # AllSteps) => ~fset.submitted /\ ~fset.popup
    /\ fpc = "ended" => ~isSubmitting
    /\ \E n \in 0..Len(AllSteps) : fdone = SubSeq(AllSteps, 1, n)

\* a second submission failed at the KYC upsert after the first one had gone
\* through: the status written by its profile upsert stands, no popup from it
C29_Witness ==
    /\ nsubmit = 2
    /\ fpc = "ended"
    /\ fdone = <<"profile", "bank", "docs">>
    /\ onboardingStatus = "pending"
    /\ ~fset.submitted

\* C30: Concurrent document uploads are not lost. After any interleaving of
\* upload completions, onboardingData.documents holds, for every document key
\* with a successful upload, the path of the most recent successful upload.
C30_UploadsNotLost ==
    \A d \in DocKeys : latest[d] # NoPath => documents[d] = latest[d]

\* the PAN card was uploaded again while an Aadhaar upload was in flight; the
\* Aadhaar completion put the older PAN path back
C30_Lost ==
    /\ latest["panCard"] = 3
    /\ documents["panCard"] = 1
    /\ documents["aadhaarCard"] = 2

\* ======================================================================
\* Claims about the pipeline and the profile store, checked under SpecOnboarding
\* ======================================================================

\* C26: The verification pipeline never mutates merchant profile fields. A step
\* of verifyMerchant, of the worker's processor, of the queue or of a handler
\* leaves the merchant's rows and onboarding_status, and the wizard's state, as
\* they are.
C26_PipelineLeavesProfile ==
    [][pipelineVars' # pipelineVars => UNCHANGED wizVars]_vars

\* the merchant has submitted, the job for the merchant is Completed and its
\* notification was sent; the status is still the one the wizard wrote
C26_Witness ==
    /\ onboardingStatus = "submitted"
    /\ jstate["j1"] = "Completed"
    /\ nsent["j1"] >= 1
    /\ lastNotif["j1"].delivered

\* ======================================================================
\* Claims about the entry paths, checked under SpecHttp and SpecNotify
\* ======================================================================

\* C27: Merchant isolation on every entry path. A verification a handler drives
\* for the merchant of its request body reads and writes the cache entry of that
\* merchant and of no other.
C27_MerchantIsolation ==
    \A h \in Handlers :
        vpc[h] \in {"get", "compute", "set", "done"} =>
            Key(varg[h]) = Key(hbody[h].merchantId)

\* worker w is about to call sendNotification for a job whose verification did
\* not hit an error
Sends(w) ==
    /\ wpc[w] = "verify"
    /\ vpc[w] = "done"
    /\ vpath[w] \in {"hit", "miss"}

\* the entry the call of w was served from (hit) or wrote (miss)
UsedEntry(w) == IF vpath[w] = "hit" THEN jread[wjob[w]] ELSE jwrote[wjob[w]]

\* C28 (as stated): whenever the worker sends 'Verification successful!' (resp.
\* 'Verification failed!') for a merchant on a job whose verification did not
\* hit an error, the cache entry of that merchant holds "true" (resp. "false")
\* at that moment.
C28_NotificationAgreesWithCache ==
    [][\A w \in Workers :
          (Sends(w) /\ wpc'[w] = "notify") =>
              /\ lastNotif'[wjob[w]].message \in {"Verification successful!", "Verification failed!"}
              /\ RedisGet(Key(varg[w])) =
                     (IF lastNotif'[wjob[w]].message = "Verification successful!"
                        THEN "true" ELSE "false")]_vars

\* C28 (amended): the notification has the polarity of the outcome the job's
\* verifyMerchant call returned, and the cache holds that outcome at that moment
\* when the entry the call was served from or wrote is still the merchant's
\* entry: it has not expired and no overlapping job has replaced it.
C28_NotificationAgreesUnlessReplaced ==
    [][\A w \in Workers :
          (Sends(w) /\ wpc'[w] = "notify") =>
              /\ lastNotif'[wjob[w]].message =
                     (IF vres[w].success THEN "Verification successful!"
                                         ELSE "Verification failed!")
              /\ UsedEntry(w).val = (IF vres[w].success THEN "true" ELSE "false")
              /\ (cache[Key(varg[w])] = UsedEntry(w) /\ Live(Key(varg[w]))) =>
                     RedisGet(Key(varg[w])) =
                         (IF lastNotif'[wjob[w]].message = "Verification successful!"
                            THEN "true" ELSE "false")]_vars

\* two jobs of one merchant raced to different outcomes; the job whose write
\* came last has sent its notification, which agrees with the cache
C28_Witness ==
    \E w \in Workers :
        /\ wpc[w] = "notify"
        /\ vpath[w] = "miss"
        /\ cache[Key(varg[w])] = jwrote[wjob[w]]
        /\ Live(Key(varg[w]))
        /\ lastNotif[wjob[w]].message = "Verification failed!"
        /\ \E j \in Jobs : jwrote[j] # NoEntry /\ jwrote[j].val = "true"

====
